---- MODULE Spec2Model ----
(***************************************************************************)
(* A state-machine model of bitblas/ops/operator.py (Operator and          *)
(* OPExecutorCPU) and bitblas/base/arch/rdna.py (check_gfx_version, RDNA). *)
(*                                                                         *)
(* The tensor compiler, the tuning service and the library generator are   *)
(* external: each of their calls is a nondeterministic choice between the  *)
(* results the call can produce (a value, None, or an exception).          *)
(* A Python None is the record/string whose tag says "None", so that every *)
(* variable keeps one shape.                                               *)
(***************************************************************************)
EXTENDS Integers, Sequences, FiniteSets, TLC

VARIABLES
    \* ---- one Operator object (operator.py:67-416)
    alive,            \* TRUE iff Operator.__init__ returned (did not raise)
    platform,         \* self.arch.platform
    target,           \* self.target
    has_name_gen,     \* self.kernel_name_generator is not None
    prim_func_mod,    \* self.prim_func_mod: global name -> function
    optimized_mod,    \* self.optimized_mod
    rt_mod,           \* self.rt_mod
    time_evaluator,   \* self.time_evaluator
    torch_func,       \* self.torch_func
    dynamic_range,    \* self.dynamic_range
    pass_context,     \* self.pass_context
    lib,              \* self.lib
    lib_code,         \* self.lib_generator.lib_code
    res,              \* what the last call on the Operator did and returned
    ever_sched,       \* a scheduling step has completed on this Operator
    captured,         \* the pass context of the latest best tuning result
    \* ---- one OPExecutorCPU object and one call of its forward (operator.py:419-446)
    operators,        \* self.operators
    ex_pc,            \* "idle", "loop" (inside forward), "done", "raised"
    ex_weight,        \* the argument of forward
    ex_inputs,        \* the local list inputs
    ex_i,             \* the position of the for loop in self.operators
    ex_calls,         \* the calls of op.forward made by this forward, in order
    ex_ret,           \* what forward returned: << >> or <<value>>
    \* ---- one evaluation of var_warpper (operator.py:277-301)
    pf_v,             \* the shape element v
    pf_constraints,   \* dynamic_symbolic_constraints
    pf_attrs,         \* func.attrs
    pf_out,           \* what var_warpper did
    pf_log,           \* the records given to logger.info
    \* ---- one construction of RDNA (rdna.py:13-38)
    rd_pc,            \* "start", "parsed", "probed", "done", "raised"
    rd_arch,          \* self.target.arch, a sequence of characters
    rd_device,        \* what tvm.runtime.hip(0) answers
    rd_self,          \* the fields of self
    rd_set,           \* the names of the fields assigned so far
    rd_reads,         \* the device attributes read so far
    rd_out            \* how the constructor ended

opVars == <<alive, platform, target, has_name_gen, prim_func_mod, optimized_mod,
            rt_mod, time_evaluator, torch_func, dynamic_range, pass_context,
            lib, lib_code, res, ever_sched, captured>>

exVars == <<operators, ex_pc, ex_weight, ex_inputs, ex_i, ex_calls, ex_ret>>

pfVars == <<pf_v, pf_constraints, pf_attrs, pf_out, pf_log>>

rdVars == <<rd_pc, rd_arch, rd_device, rd_self, rd_set, rd_reads, rd_out>>

vars == <<opVars, exVars, pfVars, rdVars>>

-----------------------------------------------------------------------------
(* Values                                                                  *)

Names == {"main", "aux1", "aux2"}

Targets == {"tgtSelf", "tgtOther"}

Hints == {"h1"}

EmptyDict == [k \in {} |-> TRUE]

\* operator.py:134-137, the literal part of the pass configuration
DefaultPassConfig == [k \in {"tir.use_async_copy", "tir.disable_cse_tir"} |-> TRUE]

\* pass contexts a best tuning result can carry (best.config.pass_context)
PassContexts ==
    { [k \in {"tir.use_async_copy"} |-> FALSE],
      [k \in {"tir.merge_static_smem"} |-> TRUE] }

\* Python {**a, **b}: the keys of both, b's value where both have the key
Merge(a, b) ==
    [k \in (DOMAIN a) \cup (DOMAIN b) |-> IF k \in DOMAIN b THEN b[k] ELSE a[k]]

NoMod == [some |-> FALSE, funcs |-> {}]

\* the single-entry module as it would be if the function kept its name
SingleEntry_named_main(name, sched) ==
    [some |-> TRUE, funcs |-> {[name |-> "main", sym |-> name, sched |-> sched]}]

\* tvm.IRModule({name: func}) with func = scheduled_mod["main"].with_attr("global_symbol", name)
SingleEntry(name, sched) ==
    [some |-> TRUE, funcs |-> {[name |-> name, sym |-> name, sched |-> sched]}]

\* a runtime artifact: what was compiled (the optimized module, the primary
\* function func, or an artifact built elsewhere) and for which target
NoRt == [kind |-> "None", func |-> "-", target |-> "-"]

ExternalRt == [kind |-> "external", func |-> "-", target |-> "-"]

NoneV == [tag |-> "None", rt |-> NoRt, dyn |-> FALSE, func |-> "-"]

\* rt_mod.imported_modules[0].get_source(): the device source of artifact rt
DeviceSource(rt) == [tag |-> "src", rt |-> rt, dyn |-> FALSE, func |-> "-"]

\* a loaded library handle, and whether its init() has returned
NoLib == [some |-> FALSE, inited |-> FALSE]

LoadedLib(inited) == [some |-> TRUE, inited |-> inited]

NoCompile == [some |-> FALSE, what |-> "-", target |-> "-", cfg |-> EmptyDict, ok |-> FALSE]

\* rt_mod.time_evaluator(rt_mod.entry_name, self.arch.device, number=10)
TimeEvaluatorRuns == 10

TimeEvaluator(rt) == [some |-> TRUE, rt |-> rt, number |-> TimeEvaluatorRuns]

NoEval == [some |-> FALSE, rt |-> NoRt, number |-> 0]

NoCapture == [some |-> FALSE, ctx |-> EmptyDict]

-----------------------------------------------------------------------------
(* Operator                                                                *)

\* The primary module _select_implementation returns: any set of global names
InitialModules ==
    { [n \in S |-> "f_" \o n] : S \in SUBSET Names }

\* BaseKernelNameGenerator.generate(hint)
generate(hint) == IF hint = "None" THEN "kernel_default" ELSE "kernel_" \o hint

\* prim_func as it would be if only the name "main" were accepted
prim_func_main_only(m) ==
    IF "main" \in DOMAIN m
    THEN [raised |-> FALSE, err |-> "", val |-> m["main"]]
    ELSE [raised |-> TRUE,
          err |-> "ValueError: Unable to determine primary function.",
          val |-> "-"]

\* the property Operator.prim_func
prim_func(m) ==
    IF Cardinality(DOMAIN m) = 1
    THEN [raised |-> FALSE, err |-> "", val |-> m[CHOOSE n \in DOMAIN m : TRUE]]
    ELSE IF "main" \in DOMAIN m
         THEN [raised |-> FALSE, err |-> "", val |-> m["main"]]
         ELSE [raised |-> TRUE,
               err |-> "ValueError: Unable to determine primary function.",
               val |-> "-"]

\* the fields of self, as one record
Self ==
    [platform |-> platform, target |-> target, has_name_gen |-> has_name_gen,
     prim_func_mod |-> prim_func_mod, optimized_mod |-> optimized_mod,
     rt_mod |-> rt_mod, time_evaluator |-> time_evaluator,
     torch_func |-> torch_func, dynamic_range |-> dynamic_range,
     pass_context |-> pass_context, lib |-> lib, lib_code |-> lib_code]

\* what a method did: the object afterwards, whether it raised, its return
\* value, the compile it attempted, how far the library sequence got, the
\* scheduling step it completed, the target its search ran against, the
\* schedule error it logged as a warning, the pass context it captured, the
\* global names of the scheduled module it was given, whether the search
\* found a best result, and the hint of that result
Outcome(s, raised, err, ret, compiled, libseq) ==
    [s |-> s, raised |-> raised, err |-> err, ret |-> ret,
     compiled |-> compiled, libseq |-> libseq, sched |-> "none", searched |-> "-",
     warned |-> "", captured |-> NoCapture, schedmod |-> {}, found |-> "-",
     hint |-> "-"]

LibFailures == {"none", "wrap", "compile", "load", "init"}

\* LibraryGenerator.update_lib_code(wrapped_source)
update_lib_code(s, code) == [s EXCEPT !.lib_code = code]

\* self.lib = self.lib_generator.load_lib()
assign_lib(s, handle) == [s EXCEPT !.lib = handle]

\* the try block of _build_runtime_module; libFail names the step that raises
LibrarySequence(s, libFail) ==
    LET is_dynamic == s.dynamic_range # "None" /\ Cardinality(s.optimized_mod.funcs) > 1
        \* get_source(target, kenrel_only=True) with self.rt_mod just set
        code == [tag |-> "libcode", rt |-> NoRt, dyn |-> is_dynamic, func |-> "-"]
        s1 == update_lib_code(s, code)
    IN  CASE libFail = "wrap"    -> s
          [] libFail = "compile" -> s1
          [] libFail = "load"    -> s1
          [] libFail = "init"    -> assign_lib(s1, LoadedLib(FALSE))
          [] OTHER               -> assign_lib(s1, LoadedLib(TRUE))

\* the inner platform test as it would be if every platform had a library
LibraryPlatform_any(s) == TRUE

\* if self.arch.platform == "CUDA": inside if rt_mod
LibraryPlatform(s) == s.platform = "CUDA"

\* if rt_mod: ... of _build_runtime_module
AfterBuild(s, rt, compiled, libFail) ==
    LET s1 == [s EXCEPT !.rt_mod = rt,
                        !.time_evaluator = TimeEvaluator(rt),
                        !.torch_func = rt]
    IN  IF LibraryPlatform(s)
        THEN Outcome(LibrarySequence(s1, libFail), FALSE, "", rt, compiled, libFail)
        ELSE Outcome(s1, FALSE, "", rt, compiled, "not_attempted")

\* the pass configuration as it would be with the literal keys written last
BuildPassConfig_defaults_win(s) == Merge(s.pass_context, DefaultPassConfig)

\* the pass configuration of the CUDA compile
BuildPassConfig(s) == Merge(DefaultPassConfig, s.pass_context)

\* the CUDA compile as it would be without its try/except
FailedOptimizedBuild_raises(s, compiled) ==
    Outcome(s, TRUE, "tvm.build failed", NoRt, compiled, "not_attempted")

\* except Exception: logger.debug(...) around the CUDA compile: the local
\* rt_mod stays None and nothing of self is touched
FailedOptimizedBuild(s, compiled) ==
    Outcome(s, FALSE, "", NoRt, compiled, "not_attempted")

\* the CUDA branch as it would be without its early return
OptimizedModAbsent_never(s) == FALSE

\* if self.optimized_mod is None: return None
OptimizedModAbsent(s) == ~s.optimized_mod.some

\* the unguarded compile of the primary definition as it would be inside a
\* try/except like the CUDA one
FailedPrimaryBuild_absorbed(s, compiled) ==
    Outcome(s, FALSE, "", NoRt, compiled, "not_attempted")

\* tvm.build(self.prim_func, ...) raises: nothing of self has been touched
FailedPrimaryBuild(s, compiled) ==
    Outcome(s, TRUE, "tvm.build failed", NoRt, compiled, "not_attempted")

\* Operator._build_runtime_module(target); buildOK: tvm.build returns
build_runtime_module(s, tgt, buildOK, libFail) ==
    IF s.platform = "CUDA"
    THEN IF OptimizedModAbsent(s)
         THEN Outcome(s, FALSE, "", NoRt, NoCompile, "not_attempted")
         ELSE LET cfg == BuildPassConfig(s)
                  compiled == [some |-> TRUE, what |-> "optimized", target |-> tgt,
                               cfg |-> cfg, ok |-> buildOK]
                  rt == IF buildOK
                        THEN [kind |-> "optimized", func |-> "-", target |-> tgt]
                        ELSE NoRt
              IN  IF rt.kind = "None"
                  THEN FailedOptimizedBuild(s, compiled)
                  ELSE AfterBuild(s, rt, compiled, libFail)
    ELSE LET pf == prim_func(s.prim_func_mod)
             compiled == [some |-> TRUE, what |-> "primary", target |-> tgt,
                          cfg |-> EmptyDict, ok |-> buildOK]
         IN  IF pf.raised
             THEN Outcome(s, TRUE, pf.err, NoRt, NoCompile, "not_attempted")
             ELSE IF ~buildOK
                  THEN FailedPrimaryBuild(s, compiled)
                  ELSE AfterBuild(s, [kind |-> "primary", func |-> pf.val, target |-> tgt],
                                  compiled, libFail)

\* results of bitblas.ApplyDefaultSchedule(...)(mod) and of best.sch.mod: the
\* call raises, returns None, or returns a module with these global names
SchedNames == {"main", "aux1"}

SchedOutcomes ==
    {[kind |-> "raise", names |-> {}], [kind |-> "none", names |-> {}]}
    \cup {[kind |-> "mod", names |-> S] : S \in (SUBSET SchedNames) \ {{}}}

\* the try block as it would be if a missing generator were no error
DefaultScheduleError_ignores_generator(s, sched) ==
    CASE sched.kind = "raise" -> "schedule raised"
      [] sched.kind = "none" -> "AttributeError: NoneType has no get_global_vars"
      [] Cardinality(sched.names) # 1 -> "AssertionError: one global variable"
      [] "main" \notin sched.names -> "AssertionError: a function named main"
      [] OTHER -> ""

\* the error the try block of _build_default_module ends with ("" for none)
DefaultScheduleError(s, sched) ==
    CASE sched.kind = "raise" -> "schedule raised"
      [] sched.kind = "none" -> "AttributeError: NoneType has no get_global_vars"
      [] Cardinality(sched.names) # 1 -> "AssertionError: one global variable"
      [] "main" \notin sched.names -> "AssertionError: a function named main"
      [] ~s.has_name_gen -> "AttributeError: NoneType has no generate"
      [] OTHER -> ""

\* the except branch as it would be without the assignment
ClearOptimizedMod_keeps(s) == s

\* except Exception as apply_schedule_error: self.optimized_mod = None
ClearOptimizedMod(s) == [s EXCEPT !.optimized_mod = NoMod]

\* Operator._update_optimized_mod
update_optimized_mod(s, m) == [s EXCEPT !.optimized_mod = m]

\* the try/except of _build_default_module
default_schedule(s, sched) ==
    IF DefaultScheduleError(s, sched) = ""
    THEN update_optimized_mod(s, SingleEntry(generate("None"), "default"))
    ELSE ClearOptimizedMod(s)

\* Operator._build_default_module(target)
build_default_module(s, tgt, sched, buildOK, libFail) ==
    LET o == build_runtime_module(default_schedule(s, sched), tgt, buildOK, libFail)
    IN  [o EXCEPT !.ret = NoRt,
                  !.sched = IF DefaultScheduleError(s, sched) = "" THEN "default" ELSE "none",
                  !.warned = DefaultScheduleError(s, sched),
                  !.schedmod = sched.names]

\* results of fast_tune: best is None, or carries sch.mod, config (the hint)
\* and config.pass_context
NoBest == [some |-> FALSE, names |-> {}, hint |-> "None", pass_context |-> EmptyDict]

BestResults ==
    {NoBest} \cup
    [some : {TRUE}, names : (SUBSET SchedNames) \ {{}}, hint : Hints,
     pass_context : PassContexts]

\* self.pass_context = best.config.pass_context
CapturePassContext(s, best) == [s EXCEPT !.pass_context = best.pass_context]

\* results of fast_tune_with_dynamic_range: None or a module of one or more kernels
DynModules ==
    { NoMod,
      [some |-> TRUE, funcs |-> {[name |-> "kernel_dyn0", sym |-> "kernel_dyn0", sched |-> "dyn"]}],
      [some |-> TRUE, funcs |-> {[name |-> "kernel_dyn0", sym |-> "kernel_dyn0", sched |-> "dyn"],
                                 [name |-> "kernel_dyn1", sym |-> "kernel_dyn1", sched |-> "dyn"]}] }

\* the last line of hardware_aware_finetune as it would be if the build were
\* given the target of the search
FinetuneBuildTarget_searched(s, tgt) == tgt

\* the target the runtime build of hardware_aware_finetune is given
FinetuneBuildTarget(s, tgt) == s.target

\* how hardware_aware_finetune stands before its last line: the object, the
\* error that ended the call if one did, the scheduling step completed, the
\* target searched against and what fast_tune answered
SearchOutcome(s1, raised, err, sched, searched, found, best) ==
    [Outcome(s1, raised, err, NoRt, NoCompile, "not_attempted")
        EXCEPT !.sched = sched, !.searched = searched, !.found = found,
               !.schedmod = best.names,
               !.hint = IF best.some THEN best.hint ELSE "-"]

\* apply_fast_tuning as it would be if a missing best result reset the object
\* before failing
NoBestResult_clears(s, tgt) ==
    SearchOutcome(ClearOptimizedMod(s), TRUE, "AttributeError: NoneType has no config",
                  "none", tgt, "none", NoBest)

\* apply_fast_tuning with best None: best.config raises on the right-hand
\* side of line 225, before anything is assigned
NoBestResult(s, tgt) ==
    SearchOutcome(s, TRUE, "AttributeError: NoneType has no config",
                  "none", tgt, "none", NoBest)

\* hardware_aware_finetune up to its last line: the object after the search
\* and the bookkeeping, or the error that ends the call
finetune_schedule(s, tgtArg, dyn, best) ==
    LET tgt == IF tgtArg = "None" THEN s.target ELSE tgtArg
        pf  == prim_func(s.prim_func_mod)
    IN  IF pf.raised
        THEN SearchOutcome(s, TRUE, pf.err, "none", "-", "-", NoBest)
        ELSE IF s.dynamic_range # "None"
        THEN SearchOutcome(update_optimized_mod(s, dyn), FALSE, "", "dynamic", tgt, "-", NoBest)
        ELSE IF ~best.some
        THEN NoBestResult(s, tgt)
        ELSE LET s1 == CapturePassContext(s, best)
                 e  == CASE Cardinality(best.names) # 1 -> "AssertionError: one global variable"
                         [] "main" \notin best.names -> "AssertionError: a function named main"
                         [] ~s.has_name_gen -> "AttributeError: NoneType has no generate"
                         [] OTHER -> ""
                 c  == [some |-> TRUE, ctx |-> best.pass_context]
             IN  IF e # ""
                 THEN [SearchOutcome(s1, TRUE, e, "none", tgt, "best", best)
                          EXCEPT !.captured = c]
                 ELSE [SearchOutcome(update_optimized_mod(s1,
                                         SingleEntry(generate(best.hint), best.hint)),
                                     FALSE, "", "tuned", tgt, "best", best)
                          EXCEPT !.captured = c]

\* Operator.hardware_aware_finetune(target=tgtArg); tgtArg "None" is the default
hardware_aware_finetune(s, tgtArg, dyn, best, buildOK, libFail) ==
    LET p == finetune_schedule(s, tgtArg, dyn, best)
    IN  IF p.raised
        THEN p
        ELSE LET o == build_runtime_module(p.s, FinetuneBuildTarget(s, p.searched),
                                           buildOK, libFail)
             IN  [o EXCEPT !.ret = NoRt, !.sched = p.sched, !.searched = p.searched,
                           !.captured = p.captured, !.schedmod = p.schedmod,
                           !.found = p.found, !.hint = p.hint]

\* the first test of get_source as it would be without the kenrel_only flag
PrefersLibCode_ignores_flag(s, kenrel_only) == s.lib_code.tag # "None"

\* the first test of get_source: the library code is returned as it is
PrefersLibCode(s, kenrel_only) == s.lib_code.tag # "None" /\ ~kenrel_only

\* Operator.get_source(target=tgtArg, kenrel_only); ret is a value, not an artifact
get_source(s, tgtArg, kenrel_only, buildOK, libFail) ==
    LET tgt == IF tgtArg = "None" THEN s.target ELSE tgtArg
    IN  IF PrefersLibCode(s, kenrel_only)
        THEN Outcome(s, FALSE, "", s.lib_code, NoCompile, "not_attempted")
        ELSE LET o == IF s.rt_mod.kind = "None"
                      THEN build_runtime_module(s, tgt, buildOK, libFail)
                      ELSE Outcome(s, FALSE, "", NoRt, NoCompile, "not_attempted")
             IN  IF o.raised
                 THEN [o EXCEPT !.ret = NoneV]
                 ELSE [o EXCEPT !.ret = IF o.s.rt_mod.kind # "None"
                                        THEN DeviceSource(o.s.rt_mod)
                                        ELSE NoneV]

\* Operator.update_func(func): self.prim_func_mod["main"] = func
update_func(s, f) ==
    [s EXCEPT !.prim_func_mod =
        [n \in (DOMAIN s.prim_func_mod) \cup {"main"} |->
            IF n = "main" THEN f ELSE s.prim_func_mod[n]]]

\* outcomes of ctypes.CDLL(libpath) followed by lib.init()
CdllOutcomes == {"ok", "load", "init"}

\* Operator.update_runtime_module(rt_mod, srcpath, libpath); the paths kept by
\* the library generator are not part of this model
update_runtime_module(s, rt, libpath, cdll) ==
    LET s1 == [s EXCEPT !.rt_mod = rt, !.time_evaluator = TimeEvaluator(rt),
                        !.torch_func = rt]
    IN  IF libpath = "None"
        THEN Outcome(s1, FALSE, "", NoRt, NoCompile, "not_attempted")
        ELSE CASE cdll = "load" ->
                    Outcome(s1, TRUE, "OSError", NoRt, NoCompile, "not_attempted")
               [] cdll = "init" ->
                    Outcome(assign_lib(s1, LoadedLib(FALSE)),
                            TRUE, "init raised", NoRt, NoCompile, "not_attempted")
               [] OTHER ->
                    Outcome(assign_lib(s1, LoadedLib(TRUE)),
                            FALSE, "", NoRt, NoCompile, "not_attempted")

-----------------------------------------------------------------------------
(* The Operator as a state machine: one action per public call             *)

\* the object after a call, and the record of the call
Apply(op, o, arg) ==
    /\ prim_func_mod' = o.s.prim_func_mod
    /\ optimized_mod' = o.s.optimized_mod
    /\ rt_mod' = o.s.rt_mod
    /\ time_evaluator' = o.s.time_evaluator
    /\ torch_func' = o.s.torch_func
    /\ dynamic_range' = o.s.dynamic_range
    /\ pass_context' = o.s.pass_context
    /\ lib' = o.s.lib
    /\ lib_code' = o.s.lib_code
    /\ res' = [op |-> op, raised |-> o.raised, err |-> o.err, ret |-> o.ret,
               compiled |-> o.compiled, libseq |-> o.libseq, sched |-> o.sched,
               searched |-> o.searched, warned |-> o.warned,
               schedmod |-> o.schedmod, found |-> o.found, hint |-> o.hint,
               arg |-> arg]
    /\ ever_sched' = (ever_sched \/ o.sched # "none")
    /\ captured' = IF o.captured.some THEN o.captured ELSE captured
    /\ UNCHANGED <<alive, platform, target, has_name_gen>>
    /\ UNCHANGED <<exVars, pfVars, rdVars>>

\* the arguments of a call; target is kept for hardware_aware_finetune only
NoArg == [kenrel_only |-> FALSE, func |-> "-", target |-> "-"]

\* Operator.__init__ for a primary module drawn from mods: everything is
\* absent, and len(self.prim_func.params) raises when the primary function
\* cannot be determined
OpInit(mods) ==
    /\ platform \in {"CUDA", "ROCm"}
    /\ target = "tgtSelf"
    /\ has_name_gen \in BOOLEAN
    /\ prim_func_mod \in mods
    /\ alive = ~prim_func(prim_func_mod).raised
    /\ optimized_mod = NoMod
    /\ rt_mod = NoRt
    /\ time_evaluator = NoEval
    /\ torch_func = NoRt
    /\ dynamic_range = "None"
    /\ pass_context = EmptyDict
    /\ lib = NoLib
    /\ lib_code = NoneV
    /\ res = [op |-> "__init__", raised |-> prim_func(prim_func_mod).raised,
              err |-> prim_func(prim_func_mod).err,
              ret |-> [NoneV EXCEPT !.tag = IF prim_func(prim_func_mod).raised
                                              THEN "None" ELSE "func",
                                    !.func = prim_func(prim_func_mod).val],
              compiled |-> NoCompile, libseq |-> "not_attempted", sched |-> "none",
              searched |-> "-", warned |-> "", schedmod |-> {}, found |-> "-",
              hint |-> "-", arg |-> NoArg]
    /\ ever_sched = FALSE
    /\ captured = NoCapture

\* what tvm.build and the library sequence do: <<the build returns, the library
\* step that raises>>
BuildResults == {<<FALSE, "none">>} \cup {<<TRUE, f>> : f \in LibFailures}

\* the results _build_runtime_module can see on object s: none when it
\* returns before tvm.build, no library step off the CUDA platform
BuildChoices(s) ==
    IF s.platform = "CUDA"
    THEN IF s.optimized_mod.some THEN BuildResults ELSE {<<FALSE, "none">>}
    ELSE {<<FALSE, "none">>, <<TRUE, "none">>}

GetPrimFunc ==
    /\ alive
    /\ LET pf == prim_func(prim_func_mod)
       IN  Apply("prim_func",
                 Outcome(Self, pf.raised, pf.err,
                         [NoneV EXCEPT !.tag = IF pf.raised THEN "None" ELSE "func",
                                       !.func = pf.val],
                         NoCompile, "not_attempted"),
                 NoArg)

BuildDefaultModule ==
    /\ alive
    /\ \E tgt \in Targets, sched \in SchedOutcomes :
       \E b \in BuildChoices(default_schedule(Self, sched)) :
          LET o == build_default_module(Self, tgt, sched, b[1], b[2])
          IN  Apply("_build_default_module", [o EXCEPT !.ret = NoneV], NoArg)

\* hardware_aware_finetune with a dynamic range configured
FinetuneDynamic ==
    /\ alive
    /\ dynamic_range # "None"
    /\ \E tgtArg \in {"None", "tgtOther"}, dyn \in DynModules :
       \E b \in BuildChoices(finetune_schedule(Self, tgtArg, dyn, NoBest).s) :
          LET o == hardware_aware_finetune(Self, tgtArg, dyn, NoBest, b[1], b[2])
          IN  Apply("hardware_aware_finetune", [o EXCEPT !.ret = NoneV],
                    [NoArg EXCEPT !.target = tgtArg])

\* hardware_aware_finetune for a single shape
FinetuneSingle ==
    /\ alive
    /\ dynamic_range = "None"
    /\ \E tgtArg \in {"None", "tgtOther"}, best \in BestResults :
       \E b \in IF finetune_schedule(Self, tgtArg, NoMod, best).raised
                THEN {<<FALSE, "none">>}
                ELSE BuildChoices(finetune_schedule(Self, tgtArg, NoMod, best).s) :
          LET o == hardware_aware_finetune(Self, tgtArg, NoMod, best, b[1], b[2])
          IN  Apply("hardware_aware_finetune", [o EXCEPT !.ret = NoneV],
                    [NoArg EXCEPT !.target = tgtArg])

GetSource ==
    /\ alive
    /\ \E tgtArg \in {"None", "tgtOther"}, kenrel_only \in BOOLEAN :
       \E b \in IF PrefersLibCode(Self, kenrel_only) \/ rt_mod.kind # "None"
                THEN {<<FALSE, "none">>}
                ELSE BuildChoices(Self) :
          Apply("get_source", get_source(Self, tgtArg, kenrel_only, b[1], b[2]),
                [NoArg EXCEPT !.kenrel_only = kenrel_only])

UpdateFunc(funcs) ==
    /\ alive
    /\ \E f \in funcs :
          Apply("update_func", Outcome(update_func(Self, f), FALSE, "", NoneV,
                                       NoCompile, "not_attempted"),
                [NoArg EXCEPT !.func = f])

UpdateRuntimeModule ==
    /\ alive
    /\ \E libpath \in {"None", "path"}, cdll \in CdllOutcomes :
          LET o == update_runtime_module(Self, ExternalRt, libpath, cdll)
          IN  Apply("update_runtime_module", [o EXCEPT !.ret = NoneV], NoArg)

\* a concrete operator (or its caller) assigns the public field dynamic_range
SetDynamicRange ==
    /\ alive
    /\ \E d \in {"None", "range"} :
          Apply("set_dynamic_range", Outcome([Self EXCEPT !.dynamic_range = d], FALSE, "",
                                             NoneV, NoCompile, "not_attempted"),
                NoArg)

-----------------------------------------------------------------------------
(* OPExecutorCPU                                                           *)

\* the longest operator list, and the largest weight, that are explored
MaxOps == 3

MaxWeight == 2

\* the operators an executor is given: three kernels and one whose forward raises
OpKinds == {"add1", "dbl", "sq", "raises"}

\* op.forward(*args) of an operator of kind k: the kernel's result for its
\* last argument (Operator.forward hands back args[-1], the buffer the
\* kernel wrote)
OpForward(k, args) ==
    LET x == args[Len(args)]
    IN  CASE k = "add1" -> x + 1
          [] k = "dbl"  -> 2 * x
          [] OTHER      -> x * x

\* the loop body as it would be if the result were appended to inputs
forward_step_appends(k, inputs) == Append(inputs, OpForward(k, inputs))

\* inputs = [op.forward(*inputs)]
forward_step(k, inputs) == <<OpForward(k, inputs)>>

OperatorLists == UNION {[1..n -> OpKinds] : n \in 0..MaxOps}

\* OPExecutorCPU(operators)
ExInit ==
    /\ operators \in OperatorLists
    /\ ex_pc = "idle"
    /\ ex_weight = 0
    /\ ex_inputs = << >>
    /\ ex_i = 0
    /\ ex_calls = << >>
    /\ ex_ret = << >>

\* OPExecutorCPU.append(op), between two calls of forward
ExAppend ==
    /\ ex_pc # "loop"
    /\ Len(operators) < MaxOps
    /\ \E k \in OpKinds : operators' = Append(operators, k)
    /\ UNCHANGED <<ex_pc, ex_weight, ex_inputs, ex_i, ex_calls, ex_ret>>
    /\ UNCHANGED <<opVars, pfVars, rdVars>>

\* forward(weight) is entered: inputs = [weight]
ExCall ==
    /\ ex_pc # "loop"
    /\ \E w \in 0..MaxWeight : ex_weight' = w /\ ex_inputs' = <<w>>
    /\ ex_pc' = "loop"
    /\ ex_i' = 1
    /\ ex_calls' = << >>
    /\ ex_ret' = << >>
    /\ UNCHANGED operators
    /\ UNCHANGED <<opVars, pfVars, rdVars>>

\* one turn of for op in self.operators; an exception of op.forward leaves forward
ExStep ==
    /\ ex_pc = "loop"
    /\ ex_i <= Len(operators)
    /\ ex_calls' = Append(ex_calls, [op |-> ex_i, args |-> ex_inputs])
    /\ IF operators[ex_i] = "raises"
       THEN /\ ex_pc' = "raised"
            /\ UNCHANGED <<ex_inputs, ex_i>>
       ELSE /\ ex_inputs' = forward_step(operators[ex_i], ex_inputs)
            /\ ex_i' = ex_i + 1
            /\ UNCHANGED ex_pc
    /\ UNCHANGED <<operators, ex_weight, ex_ret>>
    /\ UNCHANGED <<opVars, pfVars, rdVars>>

\* return inputs[-1]
ExReturn ==
    /\ ex_pc = "loop"
    /\ ex_i > Len(operators)
    /\ ex_ret' = <<ex_inputs[Len(ex_inputs)]>>
    /\ ex_pc' = "done"
    /\ UNCHANGED <<operators, ex_weight, ex_inputs, ex_i, ex_calls>>
    /\ UNCHANGED <<opVars, pfVars, rdVars>>

-----------------------------------------------------------------------------
(* Operator.get_profile_tensors.var_warpper                                *)

\* the longest recorded list of extents that is explored
MaxShapes == 3

Extents == {1, 64, 128, 192}

VarNames == {"n", "m"}

\* a shape element: a tir.Var, a tir.IntImm, or anything else
ShapeElements ==
    {[kind |-> "Var", name |-> x, value |-> 0] : x \in VarNames}
    \cup {[kind |-> "IntImm", name |-> "-", value |-> 7],
          [kind |-> "Other", name |-> "-", value |-> 0]}

\* a value recorded under func.attrs["opt_shapes"][name]
OptShapeEntries ==
    {[kind |-> "IntImm", value |-> x, values |-> << >>] : x \in Extents}
    \cup {[kind |-> "Array", value |-> 0, values |-> s] :
             s \in UNION {[1..n -> Extents] : n \in 0..MaxShapes}}
    \cup {[kind |-> "Other", value |-> 0, values |-> << >>]}

\* func.attrs: without "opt_shapes", or with it and a record for "n" or none
Attrs ==
    {[has_opt_shapes |-> FALSE, opt_shapes |-> EmptyDict],
     [has_opt_shapes |-> TRUE, opt_shapes |-> EmptyDict]}
    \cup {[has_opt_shapes |-> TRUE, opt_shapes |-> [k \in {"n"} |-> e]] :
             e \in OptShapeEntries}

\* dynamic_symbolic_constraints: a value for some of the names
Constraints == {[k \in S |-> IF k = "n" THEN 16 ELSE 32] : S \in SUBSET VarNames}

\* for i in ...: avg_shape += i.value
RECURSIVE AccumulateShapes(_, _)
AccumulateShapes(avg_shape, values) ==
    IF values = << >>
    THEN avg_shape
    ELSE AccumulateShapes(avg_shape + Head(values), Tail(values))

\* avg_shape // len(...), for a list that is not empty
AverageShape(values) == AccumulateShapes(0, values) \div Len(values)

PfResult(raised, err, val, log) == [raised |-> raised, err |-> err, val |-> val, log |-> log]

\* the lookup order as it would be with the recorded shapes asked first
HasConstraint_never(v, constraints, attrs) ==
    v.name \in DOMAIN constraints
    /\ ~(attrs.has_opt_shapes /\ v.name \in DOMAIN attrs.opt_shapes)

\* if v.name in dynamic_symbolic_constraints
HasConstraint(v, constraints, attrs) == v.name \in DOMAIN constraints

\* var_warpper(v) with dynamic_symbolic_constraints and func.attrs
var_warpper(v, constraints, attrs) ==
    IF v.kind = "Var"
    THEN IF HasConstraint(v, constraints, attrs)
         THEN PfResult(FALSE, "", constraints[v.name], << >>)
         ELSE IF ~attrs.has_opt_shapes
         THEN PfResult(TRUE, "AssertionError", 0, << >>)
         ELSE IF v.name \notin DOMAIN attrs.opt_shapes
         THEN PfResult(TRUE, "AssertionError", 0, << >>)
         ELSE LET e == attrs.opt_shapes[v.name]
              IN  CASE e.kind = "IntImm" -> PfResult(FALSE, "", e.value, << >>)
                    [] e.kind = "Array" ->
                         IF Len(e.values) = 0
                         THEN PfResult(TRUE, "ZeroDivisionError", 0, << >>)
                         ELSE PfResult(FALSE, "", AverageShape(e.values),
                                       <<[name |-> v.name,
                                          avg_shape |-> AverageShape(e.values)]>>)
                    [] OTHER -> PfResult(TRUE, "RuntimeError: Not supported type", 0, << >>)
    ELSE IF v.kind = "IntImm"
    THEN PfResult(FALSE, "", v.value, << >>)
    ELSE PfResult(TRUE, "RuntimeError: Not supported type", 0, << >>)

PfNone == [status |-> "none", err |-> "", val |-> 0]

\* get_profile_tensors is about to resolve one shape element
PfInit ==
    /\ pf_v \in ShapeElements
    /\ pf_constraints \in Constraints
    /\ pf_attrs \in Attrs
    /\ pf_out = PfNone
    /\ pf_log = << >>

\* var_warpper(i) for the shape element
PfResolve ==
    /\ pf_out.status = "none"
    /\ LET r == var_warpper(pf_v, pf_constraints, pf_attrs)
       IN  /\ pf_out' = [status |-> IF r.raised THEN "raised" ELSE "returned",
                         err |-> r.err, val |-> r.val]
           /\ pf_log' = pf_log \o r.log
    /\ UNCHANGED <<pf_v, pf_constraints, pf_attrs>>
    /\ UNCHANGED <<opVars, exVars, rdVars>>

-----------------------------------------------------------------------------
(* bitblas/base/arch/rdna.py                                               *)

\* the longest text after an optional leading "gfx" that is explored
MaxSuffixLen == 3

\* characters of an architecture string; "sup2" is U+00B2 SUPERSCRIPT TWO
Chars == {"g", "f", "x", "a", "0", "2", "4", "9", "sup2"}

\* the characters int() reads as a digit
DecimalChars == {"0", "2", "4", "9"}

\* the characters for which str.isdigit() is true: the decimal digits and the
\* other characters of numeric type Digit, such as the superscripts
DigitChars == DecimalChars \cup {"sup2"}

DigitValue(c) == CASE c = "0" -> 0 [] c = "2" -> 2 [] c = "4" -> 4 [] OTHER -> 9

\* str.replace(old, ""): the occurrences of old, found from the left and not
\* overlapping, are taken out
RECURSIVE Remove(_, _)
Remove(s, old) ==
    IF Len(s) < Len(old)
    THEN s
    ELSE IF SubSeq(s, 1, Len(old)) = old
         THEN Remove(SubSeq(s, Len(old) + 1, Len(s)), old)
         ELSE <<Head(s)>> \o Remove(Tail(s), old)

\* str.isdigit(): not empty and every character a digit
isdigit(s) == s # << >> /\ \A i \in 1..Len(s) : s[i] \in DigitChars

\* int(s) for a text of decimal digits
RECURSIVE IntOf(_)
IntOf(s) == IF s = << >> THEN 0 ELSE 10 * IntOf(SubSeq(s, 1, Len(s) - 1)) + DigitValue(s[Len(s)])

\* int(s): ValueError unless every character is a decimal digit
int(s) ==
    IF \A i \in 1..Len(s) : s[i] \in DecimalChars
    THEN [raised |-> FALSE, err |-> "", val |-> IntOf(s)]
    ELSE [raised |-> TRUE, err |-> "ValueError: invalid literal for int()", val |-> 0]

\* check_gfx_version(arch)
check_gfx_version(arch) ==
    LET gfx_version == Remove(arch, <<"g", "f", "x">>)
    IN  IF isdigit(gfx_version)
        THEN int(gfx_version)
        ELSE [raised |-> FALSE, err |-> "", val |-> -1]

\* the architecture strings explored: any text of characters, alone or after "gfx"
ArchStrings ==
    LET suffixes == UNION {[1..n -> Chars] : n \in 0..MaxSuffixLen}
    IN  suffixes \cup {<<"g", "f", "x">> \o s : s \in suffixes}

\* what tvm.runtime.hip(0) answers: whether the device exists, and its registers
Devices ==
    [exist : BOOLEAN, max_shared_memory_per_block : {49152, 65536},
     multi_processor_count : {104}, warp_size : {64},
     compute_version : {<<"9", ".", "0">>}]

CapabilityFields ==
    {"device", "smem_cap", "compute_max_core", "warp_size", "compute_capability",
     "max_smem_usage"}

CapabilityReads ==
    {"max_shared_memory_per_block", "multi_processor_count", "warp_size",
     "compute_version"}

RdUnset ==
    [target |-> "-", gfx_version |-> 0, device |-> "-", platform |-> "-",
     smem_cap |-> 0, compute_max_core |-> 0, warp_size |-> 0,
     compute_capability |-> << >>, reg_cap |-> 0, max_smem_usage |-> 0,
     sm_partition |-> 0, l2_cache_size_bytes |-> 0,
     transaction_size |-> << >>, bandwidth |-> << >>]

RdNoOut == [object |-> FALSE, raised |-> FALSE, err |-> ""]

\* RDNA(target) is entered
RdInit ==
    /\ rd_pc = "start"
    /\ rd_arch \in ArchStrings
    /\ rd_device \in Devices
    /\ rd_self = RdUnset
    /\ rd_set = {}
    /\ rd_reads = {}
    /\ rd_out = RdNoOut

\* lines 15-18: self.target, self.gfx_version = check_gfx_version(self.target.arch)
RdParse ==
    /\ rd_pc = "start"
    /\ LET v == check_gfx_version(rd_arch)
       IN  IF v.raised
           THEN /\ rd_pc' = "raised"
                /\ rd_self' = [rd_self EXCEPT !.target = "target"]
                /\ rd_set' = {"target"}
                /\ rd_out' = [object |-> FALSE, raised |-> TRUE, err |-> v.err]
           ELSE /\ rd_pc' = "parsed"
                /\ rd_self' = [rd_self EXCEPT !.target = "target", !.gfx_version = v.val]
                /\ rd_set' = {"target", "gfx_version"}
                /\ UNCHANGED rd_out
    /\ UNCHANGED <<rd_arch, rd_device, rd_reads>>
    /\ UNCHANGED <<opVars, exVars, pfVars>>

\* if not device.exist
DeviceMissing(device) == ~device.exist

\* lines 20-22: device = tvm.runtime.hip(0); raise when it does not exist
RdProbe ==
    /\ rd_pc = "parsed"
    /\ rd_reads' = rd_reads \cup {"exist"}
    /\ IF DeviceMissing(rd_device)
       THEN /\ rd_pc' = "raised"
            /\ rd_out' = [object |-> FALSE, raised |-> TRUE,
                          err |-> "RuntimeError: Cannot find HIP device 0."]
       ELSE /\ rd_pc' = "probed"
            /\ UNCHANGED rd_out
    /\ UNCHANGED <<rd_arch, rd_device, rd_self, rd_set>>
    /\ UNCHANGED <<opVars, exVars, pfVars>>

\* the constants of lines 30, 33, 36, 38
RegCap == 32768

SmPartition == 4

\* target.l2_cache_size_bytes of the target given
L2CacheSizeBytes == 4194304

\* lines 23-38: the fields read from the device, and the constants
RdFill ==
    /\ rd_pc = "probed"
    /\ rd_self' = [rd_self EXCEPT
          !.device = "hip(0)",
          !.platform = "RDNA",
          !.smem_cap = rd_device.max_shared_memory_per_block,
          !.compute_max_core = rd_device.multi_processor_count,
          !.warp_size = rd_device.warp_size,
          !.compute_capability = Remove(rd_device.compute_version, <<".">>),
          !.reg_cap = RegCap,
          !.max_smem_usage = 2 * rd_device.max_shared_memory_per_block,
          !.sm_partition = SmPartition,
          !.l2_cache_size_bytes = L2CacheSizeBytes,
          !.transaction_size = <<32, 128>>,
          !.bandwidth = <<1300, 14000>>]
    /\ rd_set' = DOMAIN RdUnset
    /\ rd_reads' = rd_reads \cup CapabilityReads
    /\ rd_pc' = "done"
    /\ rd_out' = [object |-> TRUE, raised |-> FALSE, err |-> ""]
    /\ UNCHANGED <<rd_arch, rd_device>>
    /\ UNCHANGED <<opVars, exVars, pfVars>>

-----------------------------------------------------------------------------
(* Specifications                                                          *)

\* no Operator: the constructor has not returned one
OpNone ==
    /\ alive = FALSE
    /\ platform = "CUDA"
    /\ target = "tgtSelf"
    /\ has_name_gen = FALSE
    /\ prim_func_mod = EmptyDict
    /\ optimized_mod = NoMod
    /\ rt_mod = NoRt
    /\ time_evaluator = NoEval
    /\ torch_func = NoRt
    /\ dynamic_range = "None"
    /\ pass_context = EmptyDict
    /\ lib = NoLib
    /\ lib_code = NoneV
    /\ res = [op |-> "-", raised |-> FALSE, err |-> "", ret |-> NoneV,
              compiled |-> NoCompile, libseq |-> "not_attempted", sched |-> "none",
              searched |-> "-", warned |-> "", schedmod |-> {}, found |-> "-",
              hint |-> "-", arg |-> NoArg]
    /\ ever_sched = FALSE
    /\ captured = NoCapture

\* no executor at work
ExNone ==
    /\ operators = << >>
    /\ ex_pc = "idle"
    /\ ex_weight = 0
    /\ ex_inputs = << >>
    /\ ex_i = 0
    /\ ex_calls = << >>
    /\ ex_ret = << >>

\* no shape element being resolved
PfIdle ==
    /\ pf_v = [kind |-> "IntImm", name |-> "-", value |-> 7]
    /\ pf_constraints = EmptyDict
    /\ pf_attrs = [has_opt_shapes |-> FALSE, opt_shapes |-> EmptyDict]
    /\ pf_out = PfNone
    /\ pf_log = << >>

\* no RDNA under construction
RdNone ==
    /\ rd_pc = "idle"
    /\ rd_arch = << >>
    /\ rd_device = [exist |-> FALSE, max_shared_memory_per_block |-> 49152,
                    multi_processor_count |-> 104, warp_size |-> 64,
                    compute_version |-> <<"9", ".", "0">>]
    /\ rd_self = RdUnset
    /\ rd_set = {}
    /\ rd_reads = {}
    /\ rd_out = RdNoOut

\* The life of one Operator whose primary module has at most the function main
Init ==
    /\ OpInit({m \in InitialModules : DOMAIN m \subseteq {"main"}})
    /\ ExNone /\ PfIdle /\ RdNone

Next ==
    \/ BuildDefaultModule
    \/ FinetuneDynamic
    \/ FinetuneSingle
    \/ GetSource
    \/ UpdateFunc({"f_new"})
    \/ UpdateRuntimeModule
    \/ SetDynamicRange

Spec == Init /\ [][Next]_vars

\* The primary module of an Operator, for every module _select_implementation
\* can return
InitPrim == OpInit(InitialModules) /\ ExNone /\ PfIdle /\ RdNone

NextPrim ==
    \/ GetPrimFunc
    \/ UpdateFunc({"f_new", "f_alt"})

SpecPrim == InitPrim /\ [][NextPrim]_vars

\* One OPExecutorCPU
InitExec == OpNone /\ ExInit /\ PfIdle /\ RdNone

NextExec ==
    \/ ExAppend
    \/ ExCall
    \/ ExStep
    \/ ExReturn

SpecExec == InitExec /\ [][NextExec]_vars

\* One shape element resolved for profiling
InitProfile == OpNone /\ ExNone /\ PfInit /\ RdNone

NextProfile == PfResolve

SpecProfile == InitProfile /\ [][NextProfile]_vars

\* One construction of RDNA
InitRdna == OpNone /\ ExNone /\ PfIdle /\ RdInit

NextRdna ==
    \/ RdParse
    \/ RdProbe
    \/ RdFill

SpecRdna == InitRdna /\ [][NextRdna]_vars

-----------------------------------------------------------------------------
(* Properties of Operator                                                  *)

BuildOps == {"_build_default_module", "hardware_aware_finetune", "get_source"}

\* C1: for every primary module, prim_func returns the module's only global
\* function when there is exactly one (whatever its name), else the function
\* named "main" when there is one, else it fails with "Unable to determine
\* primary function" and returns nothing.  (Read at construction and by the
\* accessor; neither changes the module.)
C1_PrimFuncResolution ==
    res.op \in {"__init__", "prim_func"} =>
        LET names == DOMAIN prim_func_mod
        IN  /\ Cardinality(names) = 1 =>
                 /\ ~res.raised
                 /\ res.ret.tag = "func"
                 /\ \A n \in names : res.ret.func = prim_func_mod[n]
            /\ (Cardinality(names) # 1 /\ "main" \in names) =>
                 /\ ~res.raised
                 /\ res.ret.tag = "func"
                 /\ res.ret.func = prim_func_mod["main"]
            /\ (Cardinality(names) # 1 /\ "main" \notin names) =>
                 /\ res.raised
                 /\ res.err = "ValueError: Unable to determine primary function."
                 /\ res.ret.tag = "None"

\* C1 witness: the accessor has returned the only function of a module whose
\* single global is not named "main"
C1_Witness ==
    /\ res.op = "prim_func"
    /\ DOMAIN prim_func_mod = {"aux1"}
    /\ res.ret.func = "f_aux1"

C4_AsStated ==
    (platform = "CUDA" /\ res.op \in BuildOps /\ res.compiled.some /\ ~res.compiled.ok) =>
        /\ ~res.raised
        /\ rt_mod.kind = "None"

\* C4 amended: on CUDA, whenever the compile of the optimized module fails
\* inside _build_runtime_module, no error propagates, the library sequence is
\* not attempted, and rt_mod, time_evaluator and lib are left exactly as they
\* were before the call (rt_mod is absent afterwards only if it was absent
\* before).
C4_FailedCompileLeavesArtifact ==
    [][ (platform = "CUDA" /\ res'.op \in BuildOps
           /\ res'.compiled.some /\ ~res'.compiled.ok) =>
          /\ ~res'.raised
          /\ res'.libseq = "not_attempted"
          /\ rt_mod' = rt_mod
          /\ time_evaluator' = time_evaluator
          /\ torch_func' = torch_func
          /\ lib' = lib /\ lib_code' = lib_code ]_vars

\* C4 witness: the compile of a call failed on CUDA and the Operator still
\* holds the artifact of an earlier build
C4_Witness ==
    /\ platform = "CUDA" /\ res.op \in BuildOps
    /\ res.compiled.some /\ ~res.compiled.ok
    /\ ~res.raised
    /\ rt_mod.kind = "optimized"

\* C5: on CUDA, when the runtime compile succeeds and a step of the library
\* sequence (wrap, compile, load, init) fails, _build_runtime_module raises
\* nothing, the Operator holds the newly built artifact and its timing
\* harness, and lib is absent after the call.
C5_AsStated ==
    (platform = "CUDA" /\ res.op \in BuildOps /\ res.compiled.some /\ res.compiled.ok
       /\ res.libseq \in {"wrap", "compile", "load", "init"}) =>
        /\ ~res.raised
        /\ rt_mod.kind = "optimized" /\ rt_mod.target = res.compiled.target
        /\ time_evaluator = TimeEvaluator(rt_mod)
        /\ ~lib.some

\* the pass configuration C6 describes for a captured context c: the two
\* literal flags true, every key of c with c's value
C6_Expected(c) ==
    [k \in {"tir.use_async_copy", "tir.disable_cse_tir"} \cup DOMAIN c |->
        IF k \in DOMAIN c THEN c[k] ELSE TRUE]

\* C6: once a single-shape tuning has returned a best result, every CUDA
\* compile of the optimized module runs under {tir.use_async_copy: true,
\* tir.disable_cse_tir: true} merged with exactly the pass context of the
\* latest best result (its keys override), whatever default-schedule builds
\* and dynamic-range tunings happen in between.
C6_CapturedPassContextReused ==
    /\ captured.some => pass_context = captured.ctx
    /\ (captured.some /\ res.compiled.some /\ res.compiled.what = "optimized") =>
          res.compiled.cfg = C6_Expected(captured.ctx)

\* C6 witness: a default-schedule build, made after a tuning captured
\* {tir.use_async_copy: false}, compiled with that flag false
C6_Witness ==
    /\ res.op = "_build_default_module"
    /\ captured.some /\ captured.ctx = [k \in {"tir.use_async_copy"} |-> FALSE]
    /\ res.compiled.some /\ res.compiled.what = "optimized"
    /\ res.compiled.cfg["tir.use_async_copy"] = FALSE
    /\ res.compiled.cfg["tir.disable_cse_tir"] = TRUE

\* a get_source step: the library code and the artifact it finds, what it
\* returns, and whether it ends with an artifact
C7_ReturnsLibCode == lib_code.tag # "None" /\ ~res'.arg.kenrel_only

C12_LibraryAfterCompile ==
    res.libseq # "not_attempted" =>
        /\ platform = "CUDA"
        /\ res.compiled.some
        /\ res.compiled.ok
        /\ rt_mod.kind = "optimized"

\* C12 witness: on CUDA the compile succeeded and the whole library sequence
\* ran, leaving an initialised library
C12_Witness ==
    /\ platform = "CUDA"
    /\ res.compiled.some /\ res.compiled.ok
    /\ res.libseq = "none"
    /\ lib = LoadedLib(TRUE)

\* C13: whenever the default path or the single-shape tuned path stores an
\* optimized module, the scheduled module had exactly the one global function
\* "main", and the stored module has exactly one function, whose name and
\* global symbol are the generator's output: generate() on the default path,
\* generate(winning hint) on the tuned path.
C13_StoredSingleEntry ==
    res.sched \in {"default", "tuned"} =>
        LET expected == IF res.sched = "default"
                        THEN generate("None") ELSE generate(res.hint)
        IN  /\ res.schedmod = {"main"}
            /\ optimized_mod.some
            /\ Cardinality(optimized_mod.funcs) = 1
            /\ \A f \in optimized_mod.funcs : f.name = expected /\ f.sym = expected
            /\ res.sched = "tuned" => res.hint \in Hints

\* C13 witness: the tuned path stored the single kernel named after hint h1
C13_Witness ==
    /\ res.op = "hardware_aware_finetune"
    /\ res.sched = "tuned"
    /\ res.hint = "h1"
    /\ res.schedmod = {"main"}
    /\ optimized_mod.funcs = {[name |-> "kernel_h1", sym |-> "kernel_h1", sched |-> "h1"]}

C15_AsStated ==
    [][ res'.op = "update_func" =>
          LET f   == res'.arg.func
              old == prim_func(prim_func_mod).val
          IN  /\ ~prim_func(prim_func_mod').raised
              /\ prim_func(prim_func_mod').val = f
              /\ old # f => \A n \in DOMAIN prim_func_mod' : prim_func_mod'[n] # old
              /\ Cardinality(DOMAIN prim_func_mod') <= Cardinality(DOMAIN prim_func_mod)
      ]_vars

\* C16: when the single-shape search finds no best result,
\* hardware_aware_finetune raises and optimized_mod, pass_context, rt_mod,
\* time_evaluator and lib are what they were before the call; no compile and
\* no library sequence is attempted.
C16_NoBestLeavesState ==
    [][ (res'.op = "hardware_aware_finetune" /\ res'.found = "none") =>
          /\ dynamic_range = "None"
          /\ res'.raised
          /\ optimized_mod' = optimized_mod
          /\ pass_context' = pass_context
          /\ rt_mod' = rt_mod
          /\ time_evaluator' = time_evaluator
          /\ lib' = lib
          /\ ~res'.compiled.some
          /\ res'.libseq = "not_attempted"
      ]_vars

\* C16 witness: a search that found nothing raised on an Operator that holds
\* an optimized module, a captured pass context and an artifact
C16_Witness ==
    /\ res.op = "hardware_aware_finetune"
    /\ res.found = "none"
    /\ res.raised
    /\ optimized_mod.some
    /\ pass_context # EmptyDict
    /\ rt_mod.kind # "None"

C18_FinetuneBuildsForOwnTarget ==
    res.op = "hardware_aware_finetune" =>
        /\ res.searched # "-" =>
              res.searched = IF res.arg.target = "None" THEN target ELSE res.arg.target
        /\ res.compiled.some => res.compiled.target = target
        /\ (res.compiled.some /\ res.compiled.ok) => rt_mod.target = target

\* C18 witness: a tuning against another target compiled an artifact for the
\* Operator's own target
C18_Witness ==
    /\ res.op = "hardware_aware_finetune"
    /\ res.arg.target = "tgtOther"
    /\ res.searched = "tgtOther"
    /\ res.compiled.some /\ res.compiled.ok
    /\ res.compiled.target = "tgtSelf"
    /\ rt_mod.target = "tgtSelf"

-----------------------------------------------------------------------------
(* Properties of OPExecutorCPU.forward                                     *)

\* what the first n operators of the list make of the weight
RECURSIVE C2_Chain(_)
C2_Chain(n) ==
    IF n = 0
    THEN ex_weight
    ELSE OpForward(operators[n], <<C2_Chain(n - 1)>>)

\* C2: when forward(w) returns, it has called the forward of every operator
\* of the list exactly once and in list order, the first with w as its only
\* argument and each later one with the value the one before it returned as
\* its only argument, and it returns what the last one returned; over an
\* empty list it has called nothing and returns w.
C2_ForwardChains ==
    [][ (ex_pc = "loop" /\ ex_pc' = "done") =>
          /\ ex_ret' = <<C2_Chain(Len(operators))>>
          /\ Len(ex_calls') = Len(operators)
          /\ \A j \in 1..Len(operators) :
                ex_calls'[j] = [op |-> j, args |-> <<C2_Chain(j - 1)>>]
          /\ Len(operators) = 0 => ex_ret' = <<ex_weight>>
      ]_vars

\* C2 witness: forward(1) over [add1, dbl] called add1 with 1, dbl with 2, and
\* returned 4 (the other order would give 3)
C2_Witness ==
    /\ ex_pc = "done"
    /\ operators = <<"add1", "dbl">>
    /\ ex_weight = 1
    /\ ex_calls = <<[op |-> 1, args |-> <<1>>], [op |-> 2, args |-> <<2>>]>>
    /\ ex_ret = <<4>>

-----------------------------------------------------------------------------
(* Properties of var_warpper                                               *)

RECURSIVE C8_Sum(_)
C8_Sum(s) == IF s = << >> THEN 0 ELSE s[Len(s)] + C8_Sum(SubSeq(s, 1, Len(s) - 1))

\* r is the floor of the arithmetic mean of the values s, s not empty
C8_IsFloorMean(r, s) == r * Len(s) <= C8_Sum(s) /\ C8_Sum(s) < (r + 1) * Len(s)

C8_NotSupported ==
    /\ pf_out.status = "raised"
    /\ pf_out.err = "RuntimeError: Not supported type"
    /\ pf_log = << >>

C8_Returned(x) == pf_out.status = "returned" /\ pf_out.val = x /\ pf_log = << >>

\* C8: a symbolic dimension named n resolves to the caller-supplied value for
\* n when there is one, whatever is recorded; else to the single value
\* recorded for n; else, when a list of values (not empty) is recorded for n,
\* to the floor of their arithmetic mean, with one informational record of
\* n and that mean; a recorded value of any other type, and a shape element
\* that is neither a symbolic variable nor an integer constant, fail with
\* 'Not supported type'.  (An integer constant resolves to its value.)
C8_ProfileShapes ==
    pf_out.status # "none" =>
        /\ (pf_v.kind = "Var" /\ pf_v.name \in DOMAIN pf_constraints) =>
              C8_Returned(pf_constraints[pf_v.name])
        /\ (pf_v.kind = "Var" /\ pf_v.name \notin DOMAIN pf_constraints
              /\ pf_attrs.has_opt_shapes /\ pf_v.name \in DOMAIN pf_attrs.opt_shapes) =>
              LET e == pf_attrs.opt_shapes[pf_v.name]
              IN  /\ e.kind = "IntImm" => C8_Returned(e.value)
                  /\ (e.kind = "Array" /\ e.values # << >>) =>
                        /\ pf_out.status = "returned"
                        /\ C8_IsFloorMean(pf_out.val, e.values)
                        /\ pf_log = <<[name |-> pf_v.name, avg_shape |-> pf_out.val]>>
                  /\ e.kind = "Other" => C8_NotSupported
        /\ pf_v.kind = "IntImm" => C8_Returned(pf_v.value)
        /\ pf_v.kind = "Other" => C8_NotSupported

\* C8 witness: with no caller-supplied value for n and the extents 64, 128,
\* 192 recorded for it, n resolved to 128 and the substitution was logged
C8_Witness ==
    /\ pf_out = [status |-> "returned", err |-> "", val |-> 128]
    /\ pf_v = [kind |-> "Var", name |-> "n", value |-> 0]
    /\ "n" \notin DOMAIN pf_constraints
    /\ pf_attrs = [has_opt_shapes |-> TRUE,
                   opt_shapes |-> [k \in {"n"} |->
                       [kind |-> "Array", value |-> 0, values |-> <<64, 128, 192>>]]]
    /\ pf_log = <<[name |-> "n", avg_shape |-> 128]>>

-----------------------------------------------------------------------------
(* Properties of bitblas/base/arch/rdna.py                                 *)

\* C9 as stated: a construction with no device 0 ends with the 'device not
\* found' error and no object, and no capability field has been read or set.
C9_AsStated ==
    (~rd_device.exist /\ rd_pc \in {"raised", "done"}) =>
        /\ rd_out = [object |-> FALSE, raised |-> TRUE,
                     err |-> "RuntimeError: Cannot find HIP device 0."]
        /\ rd_set \cap CapabilityFields = {}
        /\ rd_reads \cap CapabilityReads = {}

\* the integer a text of decimal digits denotes
C10_Pow10(n) == IF n = 0 THEN 1 ELSE IF n = 1 THEN 10 ELSE IF n = 2 THEN 100 ELSE IF n = 3 THEN 1000 ELSE 10000

RECURSIVE C10_Value(_)
C10_Value(s) ==
    IF s = << >>
    THEN 0
    ELSE DigitValue(Head(s)) * C10_Pow10(Len(s) - 1) + C10_Value(Tail(s))

C10_AllDecimal(s) == s # << >> /\ \A i \in 1..Len(s) : s[i] \in DecimalChars

\* C10 as stated: check_gfx_version never raises; it returns the integer value
\* of what remains after 'gfx' is removed when that is not empty and all
\* digits, and -1 otherwise.
C10_AsStated ==
    rd_pc # "start" =>
        /\ rd_out.err # "ValueError: invalid literal for int()"
        /\ "gfx_version" \in rd_set
        /\ LET rest == Remove(rd_arch, <<"g", "f", "x">>)
           IN  rd_self.gfx_version =
                  IF C10_AllDecimal(rest) THEN C10_Value(rest) ELSE -1

====
